---- MODULE Spec2Model ----
(***************************************************************************)
(* godaddy_ddns.py: one run of the dynamic-DNS updater, from the command   *)
(* line to the process exit.                                               *)
(*                                                                         *)
(* Text (str) is a sequence of one-character strings, so that split, join  *)
(* and strip are computed as Python computes them.  An optional value      *)
(* (None or a value) is a sequence of length 0 or 1.                       *)
(***************************************************************************)
EXTENDS Integers, Sequences, FiniteSets, TLC

VARIABLES argv, args, pc, hostnames, ipslist, gets, resolves, puts, stdout, raised, exit

vars == <<argv, args, pc, hostnames, ipslist, gets, resolves, puts, stdout, raised, exit>>

(***************************************************************************)
(* Bounds of the model.                                                    *)
(***************************************************************************)
\* labels of a host name given on the command line
MaxLabels == 3
\* addresses in the comma-separated --ip value
MaxIps == 2

(***************************************************************************)
(* str methods                                                             *)
(***************************************************************************)
None == <<>>

Some(v) == <<v>>

Positions(s, c) == {i \in 1..Len(s) : s[i] = c}

Min(S) == CHOOSE i \in S : \A j \in S : i <= j

RECURSIVE Split(_, _)
\* str.split(sep): always at least one piece; ''.split(sep) = ['']
Split(s, sep) ==
    IF Positions(s, sep) = {}
    THEN <<s>>
    ELSE LET i == Min(Positions(s, sep))
         IN <<SubSeq(s, 1, i - 1)>> \o Split(SubSeq(s, i + 1, Len(s)), sep)

RECURSIVE Join(_, _)
\* sep.join(parts)
Join(parts, sep) ==
    IF Len(parts) = 0 THEN <<>>
    ELSE IF Len(parts) = 1 THEN parts[1]
    ELSE parts[1] \o <<sep>> \o Join(Tail(parts), sep)

Whitespace == {" ", "\n"}

RECURSIVE LStrip(_)
LStrip(s) == IF Len(s) > 0 /\ s[1] \in Whitespace THEN LStrip(Tail(s)) ELSE s

RECURSIVE RStrip(_)
RStrip(s) ==
    IF Len(s) > 0 /\ s[Len(s)] \in Whitespace THEN RStrip(SubSeq(s, 1, Len(s) - 1)) ELSE s

\* str.strip()
Strip(s) == RStrip(LStrip(s))

\* bool(s) of a str
Truthy(s) == Len(s) > 0

\* str.format: the template and the values put in its {} places
Format(template, values) == [fmt |-> template, vals |-> values]

(***************************************************************************)
(* int(), socket.inet_aton, socket.inet_pton(AF_INET6)                     *)
(***************************************************************************)
Digits == {"0", "1", "2", "3", "4", "5", "6", "7", "8", "9"}

DigitVal(c) ==
    CASE c = "0" -> 0 [] c = "1" -> 1 [] c = "2" -> 2 [] c = "3" -> 3 [] c = "4" -> 4
      [] c = "5" -> 5 [] c = "6" -> 6 [] c = "7" -> 7 [] c = "8" -> 8 [] c = "9" -> 9

IsNumber(p) == Len(p) > 0 /\ \A i \in 1..Len(p) : p[i] \in Digits

RECURSIVE Val(_)
Val(p) == IF Len(p) = 0 THEN 0 ELSE 10 * Val(SubSeq(p, 1, Len(p) - 1)) + DigitVal(p[Len(p)])

\* type=int of --ttl: an optional '-' and decimal digits
IsInt(s) == IF Len(s) > 0 /\ s[1] = "-" THEN IsNumber(Tail(s)) ELSE IsNumber(s)

IntOf(s) == IF s[1] = "-" THEN 0 - Val(Tail(s)) ELSE Val(s)

\* the largest last part of an n-part IPv4 text (n = 2, 3, 4)
AtonLimit(n) == CASE n = 4 -> 255 [] n = 3 -> 65535 [] n = 2 -> 16777215

\* inet_aton accepts a, a.b, a.b.c and a.b.c.d.  The texts of the model hold
\* decimal numbers only (no hex, no octal, no inner whitespace, after which
\* inet_aton stops reading), and a one-part text of the model is below 2^32
inet_aton(s) ==
    LET parts == Split(s, ".")
        n == Len(parts)
    IN /\ n \in 1..4
       /\ \A i \in 1..n : IsNumber(parts[i])
       /\ \A i \in 1..(n - 1) : Val(parts[i]) <= 255
       /\ n = 1 \/ Val(parts[n]) <= AtonLimit(n)

HexDigits == Digits \cup {"a", "b", "c", "d", "e", "f", "A", "B", "C", "D", "E", "F"}

IsHex4(g) == Len(g) \in 1..4 /\ \A i \in 1..Len(g) : g[i] \in HexDigits

\* the dotted quad that may end an IPv6 text
IsDottedQuad(g) ==
    LET parts == Split(g, ".")
    IN /\ Len(parts) = 4
       /\ \A i \in 1..4 : /\ IsNumber(parts[i])
                          /\ Len(parts[i]) <= 3
                          /\ Val(parts[i]) <= 255
                          /\ (Len(parts[i]) > 1 => parts[i][1] # "0")

\* inet_pton(AF_INET6, s): groups of 1 to 4 hex digits separated by ':', eight
\* 16-bit words in all, or fewer with exactly one '::'
inet_pton6(s) ==
    LET groups == Split(s, ":")
        n == Len(groups)
        empty == {i \in 1..n : groups[i] = <<>>}
        full == (1..n) \ empty
        quad == n > 1 /\ IsDottedQuad(groups[n])
        words == Cardinality(full) + (IF quad THEN 1 ELSE 0)
        shape == \/ empty = {} /\ words = 8
                 \/ n = 3 /\ empty = {1, 2, 3}
                 \/ n >= 3 /\ empty = {1, 2} /\ words <= 7
                 \/ n >= 3 /\ empty = {n - 1, n} /\ words <= 7
                 \/ \E i \in 2..(n - 1) : empty = {i} /\ words <= 7
    IN /\ shape
       /\ \A i \in full : IsHex4(groups[i]) \/ (i = n /\ quad)

(***************************************************************************)
(* The command line and the answers of the network                         *)
(***************************************************************************)
\* the labels a host name is made of: "h" stands first only
Labels(i) == IF i = 1 THEN {<<>>, <<"h">>} ELSE {<<>>, <<"a">>}

\* host names of 1 to MaxLabels labels, empty labels included
Hostnames ==
    {Join(ls, ".") :
        ls \in UNION {{f \in [1..n -> Labels(1) \cup Labels(2)] : \A i \in 1..n : f[i] \in Labels(i)} :
                        n \in 1..MaxLabels}}

V4 == <<"1", ".", "2", ".", "3", ".", "4">>

V4Other == <<"1", ".", "2", ".", "3", ".", "5">>

V6 == <<":", ":", "1">>

V6Other == <<":", ":", "2">>

\* an IPv4 text, an IPv6 text and the empty text, which is neither
AddrTexts == {V4, V6, <<>>}

\* comma-separated lists of 1 to MaxIps address texts
IpTexts == {Join(as, ",") : as \in UNION {[1..n -> AddrTexts] : n \in 1..MaxIps}}

\* the texts int() is given by --ttl
TtlTexts == {<<"0">>, <<"-", "5">>}

\* --force absent, --force without a value, --force with a value
ForceOptions == {None, Some(None), Some(Some(<<>>)), Some(Some(<<"F", "a", "l", "s", "e">>))}

Argvs ==
    [hostname : Hostnames,
     ip : {None} \cup {Some(t) : t \in IpTexts},
     type : {None, Some("AAAA")},
     key : {None, Some(<<"k">>)},
     secret : {None, Some(<<"s">>)},
     ttl : {None} \cup {Some(t) : t \in TtlTexts},
     force : ForceOptions]

\* bodies the IP-echo service may answer with
Bodies == {pad[1] \o t \o pad[2] : pad \in {<<<<>>, <<>>>>, <<<<" ">>, <<"\n">>>>}, t \in IpTexts}

GetStatuses == {200, 500}

\* an answer that is an error page carries no address: its body is left empty
BodiesOf(status) == IF status = 200 THEN Bodies ELSE {<<>>}

PutStatuses == {200, 204, 304, 400, 401, 403, 404, 422, 429, 500, 503}

\* what the resolver may return for a name that resolves
Answers(type) == IF type = "A" THEN {V4, V4Other} ELSE {V6, V6Other}

\* getaddrinfo failures that raise socket.gaierror: EAI_NONAME is errno -2,
\* "Name or service not known"; EAI_AGAIN is a temporary failure of the resolver
GaiErrors == {"EAI_NONAME", "EAI_AGAIN"}

(***************************************************************************)
(* argparse (lines 47-79)                                                  *)
(***************************************************************************)
DefaultTtl == 3600

DefaultArgs ==
    [hostname |-> <<>>, ip |-> None, type |-> "A", key |-> <<>>, secret |-> <<>>,
     ttl |-> DefaultTtl, force |-> FALSE]

\* --force takes one argument (type=bool): the flag alone is a usage error
UsageError(a) ==
    \/ a.force = Some(None)
    \/ a.ttl # None /\ ~IsInt(a.ttl[1])

\* type=bool: bool() of the argument's text
ForceValue(opt) == IF opt = None THEN FALSE ELSE Truthy(opt[1][1])

\* type=int, default 3600
TtlValue(opt) == IF opt = None THEN DefaultTtl ELSE IntOf(opt[1])

OrDefault(opt, default) == IF opt = None THEN default ELSE opt[1]

Namespace(a) ==
    [hostname |-> a.hostname,
     ip |-> a.ip,
     type |-> OrDefault(a.type, "A"),
     key |-> OrDefault(a.key, <<>>),
     secret |-> OrDefault(a.secret, <<>>),
     ttl |-> TtlValue(a.ttl),
     force |-> ForceValue(a.force)]

MsgUsage == "usage error"

Init ==
    /\ argv \in Argvs
    /\ args = DefaultArgs
    /\ pc = "parse_args"
    /\ hostnames = <<>>
    /\ ipslist = <<>>
    /\ gets = <<>>
    /\ resolves = <<>>
    /\ puts = <<>>
    /\ stdout = <<>>
    /\ raised = None
    /\ exit = None

\* the message printed and the run ended by a plain return, as lines 127-128 do
RaisePrinted(msg, status) ==
    /\ raised' = None
    /\ exit' = Some(0)
    /\ pc' = "exit"

\* raise: the process ends with the exception uncaught
Raise(msg, status) ==
    /\ raised' = Some(msg)
    /\ exit' = Some(status)
    /\ pc' = "exit"

\* return from main: the process ends normally
Return ==
    /\ raised' = None
    /\ exit' = Some(0)
    /\ pc' = "exit"

ParseArgs ==
    /\ pc = "parse_args"
    /\ IF UsageError(argv)
       THEN /\ Raise(Format(MsgUsage, <<>>), 2)
            /\ UNCHANGED args
       ELSE /\ args' = Namespace(argv)
            /\ pc' = "hostname"
            /\ UNCHANGED <<raised, exit>>
    /\ UNCHANGED <<argv, hostnames, ipslist, gets, resolves, puts, stdout>>

(***************************************************************************)
(* main: the host name (lines 82-87)                                       *)
(***************************************************************************)
MsgInvalidHostname ==
    "Hostname \"{}\" is not a fully-qualified host name of form \"HOST.DOMAIN.TOP\"."

\* '@' put first for fewer than 2 labels only
WithApexOffByOne(labels) == IF Len(labels) < 2 THEN <<<<"@">>>> \o labels ELSE labels

\* hostnames.insert(0,'@') when there are fewer than 3 labels
WithApex(labels) == IF Len(labels) < 3 THEN <<<<"@">>>> \o labels ELSE labels

ParseHostname ==
    /\ pc = "hostname"
    /\ LET labels == Split(args.hostname, ".")
       IN IF Len(labels) < 2
          THEN /\ Raise(Format(MsgInvalidHostname, <<args.hostname>>), 1)
               /\ hostnames' = labels
          ELSE /\ hostnames' = WithApex(labels)
               /\ pc' = "ip"
               /\ UNCHANGED <<raised, exit>>
    /\ UNCHANGED <<argv, args, ipslist, gets, resolves, puts, stdout>>

(***************************************************************************)
(* main: the target addresses (lines 90-101)                               *)
(***************************************************************************)
MsgLookupFailed == "Unable to automatically obtain IP address from {}."

MsgObtained == "Automatically obtained IP address \"{}\"."

MsgConnectionError == "requests.exceptions.ConnectionError"

\* not args.ip: None and '' alike
NoIp(ip) == IF ip = None THEN TRUE ELSE ~Truthy(ip[1])

LookupUrl(type) ==
    IF type = "AAAA" THEN "https://ipv6.icanhazip.com/" ELSE "https://ipv4.icanhazip.com/"

\* Response.ok of requests: the status is no 4xx and no 5xx
Ok(status) == ~(400 <= status /\ status < 600)

\* args.ip = resp.text.strip()
ObtainedIp(body) == Strip(body)

ExplicitIp ==
    /\ pc = "ip"
    /\ ~NoIp(args.ip)
    /\ pc' = "validate"
    /\ UNCHANGED <<argv, args, hostnames, ipslist, gets, resolves, puts, stdout, raised, exit>>

LookupIp ==
    /\ pc = "ip"
    /\ NoIp(args.ip)
    /\ \/ /\ gets' = Append(gets, [url |-> LookupUrl(args.type), resp |-> None])
          /\ Raise(Format(MsgConnectionError, <<>>), 1)
          /\ UNCHANGED <<args, stdout>>
       \/ \E status \in GetStatuses : \E body \in BodiesOf(status) :
            /\ gets' = Append(gets, [url |-> LookupUrl(args.type),
                                     resp |-> Some([status_code |-> status, text |-> body])])
            /\ IF ~Ok(status)
               THEN /\ Raise(Format(MsgLookupFailed, <<LookupUrl(args.type)>>), 1)
                    /\ UNCHANGED <<args, stdout>>
               ELSE /\ args' = [args EXCEPT !.ip = Some(ObtainedIp(body))]
                    /\ stdout' = Append(stdout, Format(MsgObtained, <<ObtainedIp(body)>>))
                    /\ pc' = "validate"
                    /\ UNCHANGED <<raised, exit>>
    /\ UNCHANGED <<argv, hostnames, ipslist, resolves, puts>>

(***************************************************************************)
(* main: validation of the addresses (lines 103-112)                       *)
(***************************************************************************)
MsgInvalidAddress == "\"{}\" is not a valid {} record."

\* the call of lines 106-109 returns without socket.error
ValidAddress(type, a) == IF type = "A" THEN inet_aton(a) ELSE inet_pton6(a)

\* the loop of line 104 looking at ipslist[0] only
InvalidAtFirst(type, ips) == {i \in {1} : ~ValidAddress(type, ips[1])}

\* the positions of ips the loop of line 104 would raise at
InvalidAt(type, ips) == {i \in 1..Len(ips) : ~ValidAddress(type, ips[i])}

ValidateAddresses ==
    /\ pc = "validate"
    /\ LET ips == Split(args.ip[1], ",")
           bad == InvalidAt(args.type, ips)
       IN /\ ipslist' = ips
          /\ IF bad # {}
             THEN Raise(Format(MsgInvalidAddress, <<ips[Min(bad)], args.type>>), 1)
             ELSE /\ pc' = "precheck"
                  /\ UNCHANGED <<raised, exit>>
    /\ UNCHANGED <<argv, args, hostnames, gets, resolves, puts, stdout>>

(***************************************************************************)
(* main: the pre-check (lines 115-128)                                     *)
(***************************************************************************)
MsgAlready == "\"{}\" already has IP address \"{}\"."

MsgGaiError == "socket.gaierror"

MsgOSError == "OSError"

MsgUnicodeError == "UnicodeError: label empty or too long"

\* line 115
PrecheckRuns(force, ips) == ~force /\ Len(ips) = 1

\* the list ipslist compared with dnsaddr, which no address equals
SameAddressNever(target, dnsaddr) == FALSE

\* line 121
SameAddress(target, dnsaddr) == target = dnsaddr

\* the exceptions line 124 catches and passes over; the others are printed
\* and end the run at lines 126-128
PassedOver(exc) == exc \in {MsgGaiError}

\* the resolver takes the host name through the idna codec: every label but
\* the last must be non-empty
IdnaOk(hostname) ==
    LET labels == Split(hostname, ".")
    IN \A i \in 1..(Len(labels) - 1) : labels[i] # <<>>

Resolver(type) == IF type = "A" THEN "gethostbyname" ELSE "getaddrinfo"

\* what the try block of lines 116-123 ends with: an exception raised, or none
LookupRaises(hostname, type) ==
    IF ~IdnaOk(hostname)
    THEN {[exc |-> MsgUnicodeError, err |-> Format(MsgUnicodeError, <<>>)]}
    ELSE {[exc |-> MsgGaiError, err |-> Format(MsgGaiError, <<code>>)] : code \in GaiErrors}
         \cup {[exc |-> MsgOSError, err |-> Format(MsgOSError, <<>>)]}

\* the call of line 118 or 120 and what it ended with
Lookup(a, answer, error) ==
    [fn |-> Resolver(a.type), host |-> a.hostname, dnsaddr |-> answer, err |-> error]

SkipPrecheck ==
    /\ pc = "precheck"
    /\ ~PrecheckRuns(args.force, ipslist)
    /\ pc' = "update"
    /\ UNCHANGED <<argv, args, hostnames, ipslist, gets, resolves, puts, stdout, raised, exit>>

Precheck ==
    /\ pc = "precheck"
    /\ PrecheckRuns(args.force, ipslist)
    /\ \/ \E e \in LookupRaises(args.hostname, args.type) :
            /\ resolves' = Append(resolves, Lookup(args, None, Some(e.err)))
            /\ IF PassedOver(e.exc)
               THEN /\ pc' = "update"
                    /\ UNCHANGED <<stdout, raised, exit>>
               ELSE /\ stdout' = Append(stdout, e.err)
                    /\ Return
       \/ /\ IdnaOk(args.hostname)
          /\ \E dnsaddr \in Answers(args.type) :
               /\ resolves' = Append(resolves, Lookup(args, Some(dnsaddr), None))
               /\ IF SameAddress(ipslist[1], dnsaddr)
                  THEN /\ stdout' = Append(stdout, Format(MsgAlready, <<args.hostname, dnsaddr>>))
                       /\ Return
                  ELSE /\ pc' = "update"
                       /\ UNCHANGED <<stdout, raised, exit>>
    /\ UNCHANGED <<argv, args, hostnames, ipslist, gets, puts>>

(***************************************************************************)
(* main: the update request and its answer (lines 130-165)                 *)
(***************************************************************************)
UrlTemplate == "https://api.godaddy.com/v1/domains/{}/records/{}/{}"

MsgSet == "IP address for \"{}\" set to \"{}\"."

Msg400 == "Unable to set IP address: GoDaddy API URL ({}) was malformed."

Msg401Incorrect == "Unable to set IP address: --key or --secret option incorrect."

Msg401Missing == "Unable to set IP address: --key or --secret option missing."

Msg403 ==
    "Unable to set IP address: customer identified by --key and --secret options denied permission."

Msg404 == "Unable to set IP address: {} not found at GoDaddy."

Msg422 == "Unable to set IP address: \"{}\" has invalid domain or lacks A record."

Msg429 == "Unable to set IP address: too many requests to GoDaddy within brief period."

Msg503 == "Unable to set IP address: \"{}\" is unavailable."

MsgOther == "Unable to set IP address: GoDaddy API failure because \"{}\"."

\* hostnames[0]
RecordName(labels) == labels[1]

\* '.'.join(hostnames[1:])
Zone(labels) == Join(Tail(labels), ".")

\* line 130
Url(labels, type) == Format(UrlTemplate, <<Zone(labels), type, RecordName(labels)>>)

\* line 136: one entry per address of ipslist, in its order
Data(ips, ttl, labels, type) ==
    [i \in 1..Len(ips) |->
        [data |-> ips[i], ttl |-> ttl, name |-> RecordName(labels), type |-> type]]

\* lines 130-137
Request(a, labels, ips) ==
    [method |-> "PUT",
     url |-> Url(labels, a.type),
     authorization |-> Format("sso-key {}:{}", <<a.key, a.secret>>),
     data |-> Data(ips, a.ttl, labels, a.type)]

\* lines 143-164
FailureMessage(status, a, url) ==
    IF status = 400 THEN Format(Msg400, <<url>>)
    ELSE IF status = 401
         THEN IF Truthy(a.key) /\ Truthy(a.secret)
              THEN Format(Msg401Incorrect, <<>>)
              ELSE Format(Msg401Missing, <<>>)
    ELSE IF status = 403 THEN Format(Msg403, <<>>)
    ELSE IF status = 404 THEN Format(Msg404, <<a.hostname>>)
    ELSE IF status = 422 THEN Format(Msg422, <<a.hostname>>)
    ELSE IF status = 429 THEN Format(Msg429, <<>>)
    ELSE IF status = 503 THEN Format(Msg503, <<a.hostname>>)
    ELSE Format(MsgOther, <<status>>)

SendUpdate ==
    /\ pc = "update"
    /\ \/ /\ puts' = Append(puts, [req |-> Request(args, hostnames, ipslist), status_code |-> None])
          /\ Raise(Format(MsgConnectionError, <<>>), 1)
          /\ UNCHANGED stdout
       \/ \E status \in PutStatuses :
            /\ puts' = Append(puts, [req |-> Request(args, hostnames, ipslist),
                                     status_code |-> Some(status)])
            /\ IF Ok(status)
               THEN /\ stdout' = Append(stdout, Format(MsgSet, <<args.hostname, args.ip[1]>>))
                    /\ Return
               ELSE /\ Raise(FailureMessage(status, args, Url(hostnames, args.type)), 1)
                    /\ UNCHANGED stdout
    /\ UNCHANGED <<argv, args, hostnames, ipslist, gets, resolves>>

Next ==
    \/ ParseArgs
    \/ ParseHostname
    \/ ExplicitIp
    \/ LookupIp
    \/ ValidateAddresses
    \/ SkipPrecheck
    \/ Precheck
    \/ SendUpdate

Spec == Init /\ [][Next]_vars

(***************************************************************************)
(* What a run did, read off the calls it made and how it ended             *)
(***************************************************************************)
Done == pc = "exit"

\* the number of dot-separated labels of a text
NumLabels(h) == Cardinality(Positions(h, ".")) + 1

\* the command line was accepted and the host name has at least two labels
ValidHostname == ~UsageError(argv) /\ NumLabels(argv.hostname) >= 2

\* lines 103-112 have run: the target set is known
Validated == ipslist # <<>>

AllValid == \A i \in 1..Len(ipslist) : ValidAddress(args.type, ipslist[i])

Is2xx(status) == 200 <= status /\ status <= 299

ExitedZero == Done /\ exit = Some(0) /\ raised = None

ExitedByError == Done /\ raised # None /\ exit # None /\ exit # Some(0)

LastPrinted == IF stdout = <<>> THEN "" ELSE stdout[Len(stdout)].fmt

\* the pre-check resolved the name to an address
Resolved == Len(resolves) = 1 /\ resolves[1].dnsaddr # None

\* the pre-check's lookup failed
LookupFailed == Len(resolves) = 1 /\ resolves[1].err # None

NameNotFound == LookupFailed /\ resolves[1].err[1] = Format(MsgGaiError, <<"EAI_NONAME">>)

\* the IP-echo GET was answered with a success status
Obtained == Len(gets) = 1 /\ gets[1].resp # None /\ Ok(gets[1].resp[1].status_code)

(***************************************************************************)
(* C1                                                                      *)
(***************************************************************************)
\* C1: in a run with a host name of at least two labels, force false and a
\* target set of exactly one valid address, once the run has ended: if the
\* pre-check resolved the name to the very address text of the target, no
\* update request was sent and the run ended normally with exit status 0; if
\* it resolved to another address, exactly one update request was sent.
C1_PrecheckDecidesUpdate ==
    (Done /\ ValidHostname /\ ~args.force /\ Len(ipslist) = 1 /\ AllValid /\ Resolved)
        => IF resolves[1].dnsaddr[1] = ipslist[1]
           THEN puts = <<>> /\ ExitedZero /\ LastPrinted = MsgAlready
           ELSE Len(puts) = 1

\* the name resolved to the target: the run ended as a no-op
C1_Witness ==
    /\ Done /\ ValidHostname /\ ~args.force /\ Len(ipslist) = 1 /\ AllValid /\ Resolved
    /\ resolves[1].dnsaddr[1] = ipslist[1]
    /\ puts = <<>>
    /\ exit = Some(0)

(***************************************************************************)
(* C2                                                                      *)
(***************************************************************************)
\* the target set the command line gives, or the one obtained from the GET
Targets == IF NoIp(argv.ip) THEN ipslist ELSE Split(argv.ip[1], ",")

\* C2: in a run with a host name of at least two labels and a target set of
\* valid addresses only, if --force is on the command line or the target set
\* holds more than one address, the run makes no DNS resolution call and sends
\* exactly one update request.
C2_ForceSkipsPrecheck ==
    (/\ Done
     /\ NumLabels(argv.hostname) >= 2
     /\ Targets # <<>>
     /\ \A i \in 1..Len(Targets) : ValidAddress(OrDefault(argv.type, "A"), Targets[i])
     /\ (argv.force # None \/ Len(Targets) > 1))
        => resolves = <<>> /\ Len(puts) = 1

(***************************************************************************)
(* C3                                                                      *)
(***************************************************************************)
\* C3: when the pre-check's lookup fails, "name not found" lets the run go on
\* to send the update request, and every other failure ends the run with the
\* error printed and no update request sent.
C3_OnlyNotFoundProceeds ==
    (Done /\ LookupFailed)
        => IF NameNotFound
           THEN Len(puts) = 1
           ELSE puts = <<>> /\ stdout # <<>> /\ stdout[Len(stdout)] = resolves[1].err[1]

(***************************************************************************)
(* C4                                                                      *)
(***************************************************************************)
\* C4: once the target set is known, if any of its addresses, at any position,
\* is not valid for the record type, the run has ended by raising the
\* InvalidAddress message that names the first such address and the record
\* type, and it made no update request and no DNS resolution call, whether
\* force is set or not.
C4_ValidationAllOrNothing ==
    (Validated /\ ~AllValid)
        => /\ ExitedByError
           /\ raised[1].fmt = MsgInvalidAddress
           /\ raised[1].vals[2] = args.type
           /\ \E i \in 1..Len(ipslist) :
                /\ raised[1].vals[1] = ipslist[i]
                /\ ~ValidAddress(args.type, ipslist[i])
                /\ \A j \in 1..(i - 1) : ValidAddress(args.type, ipslist[j])
           /\ puts = <<>>
           /\ resolves = <<>>

\* force is set, the first address is valid and the second is not
C4_Witness ==
    /\ Done
    /\ args.force
    /\ Len(ipslist) = 2
    /\ ValidAddress(args.type, ipslist[1])
    /\ ~ValidAddress(args.type, ipslist[2])
    /\ raised = Some(Format(MsgInvalidAddress, <<ipslist[2], args.type>>))
    /\ puts = <<>>

(***************************************************************************)
(* C5                                                                      *)
(***************************************************************************)
\* C5: after an update request has been answered, the run ends in success
\* exactly when the status is 2xx, every other status ends it by a raised
\* failure, and no second update request is sent.
C5_SuccessIffTwoHundred ==
    (Done /\ puts # <<>> /\ puts[1].status_code # None)
        => /\ Len(puts) = 1
           /\ ExitedZero <=> Is2xx(puts[1].status_code[1])
           /\ ~Is2xx(puts[1].status_code[1]) => ExitedByError

(***************************************************************************)
(* C6                                                                      *)
(***************************************************************************)
\* how a run ended, read off what it did
EndedInvalidHostname == Done /\ ~UsageError(argv) /\ NumLabels(argv.hostname) < 2

EndedIPLookupFailed == Done /\ Len(gets) = 1 /\ ~Obtained

EndedInvalidAddress == Done /\ Validated /\ ~AllValid

\* the pre-check met an error that is no socket.gaierror
EndedPrecheckAmbiguous ==
    Done /\ LookupFailed /\ resolves[1].err[1].fmt # MsgGaiError /\ puts = <<>>

EndedAlreadyCorrect == Done /\ Resolved /\ resolves[1].dnsaddr[1] = ipslist[1] /\ puts = <<>>

\* the update request failed: no answer, or a 4xx or 5xx status
EndedProviderUpdateFailed ==
    Done /\ Len(puts) = 1 /\ (puts[1].status_code # None => ~Ok(puts[1].status_code[1]))

\* the run reported the update as set
EndedUpdated == Done /\ Len(puts) = 1 /\ LastPrinted = MsgSet

\* C6 as stated: exit status 0 exactly for a successful update and for the
\* no-op; each of the five error kinds ends by a raised error and a non-zero
\* exit status.
C6_ExitStatus ==
    Done => /\ exit = Some(0) <=> (EndedUpdated \/ EndedAlreadyCorrect)
            /\ (\/ EndedInvalidHostname
                \/ EndedIPLookupFailed
                \/ EndedInvalidAddress
                \/ EndedPrecheckAmbiguous
                \/ EndedProviderUpdateFailed) => ExitedByError

\* C6 amended: exit status 0 exactly for a run that reported the update as
\* set, for the no-op, and for a pre-check ended by a resolver error that is
\* no socket.gaierror (printed, then a plain return); InvalidHostname,
\* IPLookupFailed, InvalidAddress and ProviderUpdateFailed end by a raised
\* error and a non-zero exit status.
C6_ExitStatusAmended ==
    Done => /\ exit = Some(0) <=> (EndedUpdated \/ EndedAlreadyCorrect \/ EndedPrecheckAmbiguous)
            /\ exit = Some(0) <=> raised = None
            /\ EndedPrecheckAmbiguous => stdout[Len(stdout)] = resolves[1].err[1]
            /\ (\/ EndedInvalidHostname
                \/ EndedIPLookupFailed
                \/ EndedInvalidAddress
                \/ EndedProviderUpdateFailed) => ExitedByError

\* a run the pre-check ended on an OSError: printed, exit status 0
C6_Witness ==
    /\ EndedPrecheckAmbiguous
    /\ resolves[1].err[1].fmt = MsgOSError
    /\ exit = Some(0)
    /\ raised = None

(***************************************************************************)
(* C7                                                                      *)
(***************************************************************************)
\* the record name and zone a request was sent for
SentName(p) == p.req.url.vals[3]

SentZone(p) == p.req.url.vals[1]

\* C7: a host name of fewer than 2 labels ends the run with InvalidHostname
\* before any GET, DNS resolution or update request; with exactly 2 labels
\* the record name is '@' and the zone is the whole host name; with 3 or more
\* the record name is the first label and the zone is the rest, so that
\* name + '.' + zone is the host name; the URL and every body entry of an
\* update request carry this name and zone.
C7_HostnameParsing ==
    /\ (pc \notin {"parse_args", "hostname"} /\ ~UsageError(argv) /\ NumLabels(argv.hostname) < 2)
          => /\ ExitedByError
             /\ raised = Some(Format(MsgInvalidHostname, <<argv.hostname>>))
             /\ gets = <<>> /\ resolves = <<>> /\ puts = <<>>
    /\ \A k \in 1..Len(puts) :
          LET p == puts[k]
          IN /\ NumLabels(argv.hostname) >= 2
             /\ p.req.url.fmt = UrlTemplate
             /\ NumLabels(argv.hostname) = 2
                   => SentName(p) = <<"@">> /\ SentZone(p) = argv.hostname
             /\ NumLabels(argv.hostname) >= 3
                   => /\ "." \notin {SentName(p)[i] : i \in 1..Len(SentName(p))}
                      /\ SentName(p) \o <<".">> \o SentZone(p) = argv.hostname
             /\ \A i \in 1..Len(p.req.data) : p.req.data[i].name = SentName(p)

\* an update request for a host name of three non-empty labels
C7_Witness ==
    /\ Len(puts) = 1
    /\ argv.hostname = <<"h", ".", "a", ".", "a">>
    /\ SentName(puts[1]) = <<"h">>
    /\ SentZone(puts[1]) = <<"a", ".", "a">>

(***************************************************************************)
(* C8                                                                      *)
(***************************************************************************)
\* the message the mapping of response codes names for a failure status
MappedMessage(status, key, secret) ==
    CASE status = 400 -> Msg400
      [] status = 401 /\ Truthy(key) /\ Truthy(secret) -> Msg401Incorrect
      [] status = 401 /\ ~(Truthy(key) /\ Truthy(secret)) -> Msg401Missing
      [] status = 403 -> Msg403
      [] status = 404 -> Msg404
      [] status = 422 -> Msg422
      [] status = 429 -> Msg429
      [] status = 503 -> Msg503
      [] OTHER -> MsgOther

FailureMessages ==
    {Msg400, Msg401Incorrect, Msg401Missing, Msg403, Msg404, Msg422, Msg429, Msg503, MsgOther}

\* C8: for every status that is not 2xx the run raises the failure message of
\* the mapping (401: 'incorrect' exactly when key and secret are both
\* non-empty, 'missing' otherwise), the nine messages are pairwise distinct,
\* and the generic message carries the status code.
C8_ResponseCodeMapping ==
    /\ Cardinality(FailureMessages) = 9
    /\ (Done /\ puts # <<>> /\ puts[1].status_code # None /\ ~Is2xx(puts[1].status_code[1]))
          => /\ ExitedByError
             /\ raised[1].fmt = MappedMessage(puts[1].status_code[1], args.key, args.secret)
             /\ raised[1].fmt = MsgOther => raised[1].vals = <<puts[1].status_code[1]>>

(***************************************************************************)
(* C9                                                                      *)
(***************************************************************************)
\* C9: when no address is given and the GET succeeds, the target set is the
\* one-element list of the trimmed response body, whatever the body; so with
\* force false the pre-check runs, and an update request's body has exactly
\* one entry.
C9_ObtainedAddressIsSingle ==
    (Obtained /\ Validated)
        => /\ ipslist = <<Strip(gets[1].resp[1].text)>>
           /\ (~args.force /\ pc \in {"update", "exit"} /\ AllValid) => Len(resolves) = 1
           /\ \A k \in 1..Len(puts) : Len(puts[k].req.data) = 1

(***************************************************************************)
(* C10                                                                     *)
(***************************************************************************)
\* C10: every body entry of every update request sent carries a TTL that is
\* a positive integer, whatever --ttl is given.
C10_TtlPositive ==
    \A k \in 1..Len(puts) : \A i \in 1..Len(puts[k].req.data) : puts[k].req.data[i].ttl > 0

====
